---- MODULE Spec2Model ----
(***************************************************************************)
(* Verification model of the OneSig merkle-proof generator (merkle-cli).   *)
(*                                                                         *)
(* Byte strings are sequences of symbols.  Symbols 0..255 are bytes.  The  *)
(* hash is kept symbolic: Keccak256(b) is b between the two bracket        *)
(* symbols KOpen and KClose, so that it is injective (collision-free) and  *)
(* two digests are equal exactly when their preimages are.  A bracketed    *)
(* group stands for the 32 bytes of a digest.                              *)
(***************************************************************************)
EXTENDS Integers, Sequences, FiniteSets, TLC

\* ------------------------------------------------------------------------
\* Bounds of the model
\* ------------------------------------------------------------------------
MaxLeaves == 4
MaxInputLeaves == 2
MaxProofLen == 2
NumLeafVals == 3

\* ------------------------------------------------------------------------
\* Bytes and the hash primitive
\* ------------------------------------------------------------------------
KOpen == 256
KClose == 257

Keccak256(b) == <<KOpen>> \o b \o <<KClose>>

\* bytes.Compare: the first position where the two differ decides; when
\* one is a prefix of the other the shorter one is smaller.
bytesCompare(a, b) ==
    LET m == IF Len(a) < Len(b) THEN Len(a) ELSE Len(b)
        differ == {i \in 1..m : a[i] # b[i]}
        first == CHOOSE i \in differ : \A k \in differ : i <= k
    IN  IF differ # {} THEN (IF a[first] < b[first] THEN -1 ELSE 1)
        ELSE IF Len(a) < Len(b) THEN -1
        ELSE IF Len(a) > Len(b) THEN 1
        ELSE 0

\* ------------------------------------------------------------------------
\* package merkle: the tree with options
\* ------------------------------------------------------------------------
TreeOptions == [SortedPairs : BOOLEAN, SortLeaves : BOOLEAN]

\* A pairing that keeps the positional order whatever the options say.
hashPairIgnoringSort(left, right, options) == Keccak256(left \o right)

hashPairWithOptions(left, right, options) ==
    IF options.SortedPairs /\ bytesCompare(left, right) > 0
    THEN Keccak256(right \o left)
    ELSE Keccak256(left \o right)

\* A pairing pass that hashes the last node of an odd level with itself.
nextLevelDuplicating(nodes, options) ==
    [k \in 1..((Len(nodes) + 1) \div 2) |->
        IF 2 * k > Len(nodes)
        THEN hashPairWithOptions(nodes[2 * k - 1], nodes[2 * k - 1], options)
        ELSE hashPairWithOptions(nodes[2 * k - 1], nodes[2 * k], options)]

\* One pass of the pairing loop: the next level of nodes; the last node of
\* an odd level is carried up as it is.
nextLevel(nodes, options) ==
    [k \in 1..((Len(nodes) + 1) \div 2) |->
        IF 2 * k > Len(nodes)
        THEN nodes[2 * k - 1]
        ELSE hashPairWithOptions(nodes[2 * k - 1], nodes[2 * k], options)]

\* A construction that hashes the last remaining node once more.
RECURSIVE buildTreeHashingLastNode(_, _)
buildTreeHashingLastNode(leaves, options) ==
    IF Len(leaves) = 0 THEN [err |-> TRUE, root |-> <<>>]
    ELSE IF Len(leaves) = 1 THEN [err |-> FALSE, root |-> Keccak256(leaves[1])]
    ELSE buildTreeHashingLastNode(nextLevel(leaves, options), options)

RECURSIVE buildTreeWithOptions(_, _)
buildTreeWithOptions(leaves, options) ==
    IF Len(leaves) = 0 THEN [err |-> TRUE, root |-> <<>>]
    ELSE IF Len(leaves) = 1 THEN [err |-> FALSE, root |-> leaves[1]]
    ELSE buildTreeWithOptions(nextLevel(leaves, options), options)

\* A sort that leaves the slice as it is.
sortSliceNoOp(s) == s

\* sort.Slice with bytes.Compare(...) < 0: the ascending arrangement.
RECURSIVE insertSorted(_, _)
insertSorted(x, s) ==
    IF s = <<>> THEN <<x>>
    ELSE IF bytesCompare(x, Head(s)) < 0 THEN <<x>> \o s
    ELSE <<Head(s)>> \o insertSorted(x, Tail(s))

RECURSIVE sortSlice(_)
sortSlice(s) ==
    IF s = <<>> THEN <<>> ELSE insertSorted(Head(s), sortSlice(Tail(s)))

NoTree == [ok |-> FALSE, Root |-> <<>>, Leafs |-> <<>>,
           Options |-> [SortedPairs |-> FALSE, SortLeaves |-> FALSE]]

\* A constructor without the check for an empty leaf sequence.
NewMerkleTreeAcceptingEmpty(leaves, options) ==
    [ok |-> TRUE,
     Root |-> IF Len(leaves) = 0 THEN <<>>
              ELSE buildTreeWithOptions(leaves, options).root,
     Leafs |-> leaves, Options |-> options]

\* The copy loop of NewMerkleTreeWithOptions leaves the caller's slice and
\* its elements untouched: what the caller holds after the call.
callerLeavesAfter(leaves, options) == leaves

NewMerkleTreeWithOptions(leaves, options) ==
    IF Len(leaves) = 0 THEN NoTree
    ELSE LET leafCopies == IF options.SortLeaves THEN sortSlice(leaves) ELSE leaves
             built == buildTreeWithOptions(leafCopies, options)
         IN  IF built.err THEN NoTree
             ELSE [ok |-> TRUE, Root |-> built.root, Leafs |-> leafCopies,
                   Options |-> options]

\* A proof step that also emits the lone last node of an odd level.
levelProofBothSides(nodes, index) ==
    LET i == index - (index % 2)
    IN  IF i + 1 = Len(nodes) THEN <<nodes[i + 1]>>
        ELSE IF i = index THEN <<nodes[i + 2]>>
        ELSE <<nodes[i + 1]>>

\* The proof element of one level; index is 0-based as in the source.
levelProof(nodes, index) ==
    LET i == index - (index % 2)
    IN  IF i + 1 = Len(nodes) THEN <<>>
        ELSE IF i = index THEN <<nodes[i + 2]>>
        ELSE <<nodes[i + 1]>>

\* A proof that stops after the level of the leaves.
generateProofHelperOneLevel(nodes, index, options) ==
    IF Len(nodes) = 1 THEN <<>> ELSE levelProof(nodes, index)

RECURSIVE generateProofHelperWithOptions(_, _, _)
generateProofHelperWithOptions(nodes, index, options) ==
    IF Len(nodes) = 1 THEN <<>>
    ELSE levelProof(nodes, index)
         \o generateProofHelperWithOptions(nextLevel(nodes, options),
                                           index \div 2, options)

\* A lookup that keeps the last match instead of the first.
leafIndexLast(Leafs, leaf) ==
    IF \E i \in 1..Len(Leafs) : Leafs[i] = leaf
    THEN (CHOOSE i \in 1..Len(Leafs) :
              /\ Leafs[i] = leaf
              /\ \A j \in (i + 1)..Len(Leafs) : Leafs[j] # leaf) - 1
    ELSE -1

\* Index (0-based) of the first stored leaf equal to leaf, or -1.
leafIndex(Leafs, leaf) ==
    IF \E i \in 1..Len(Leafs) : Leafs[i] = leaf
    THEN (CHOOSE i \in 1..Len(Leafs) :
              /\ Leafs[i] = leaf
              /\ \A j \in 1..(i - 1) : Leafs[j] # leaf) - 1
    ELSE -1

GenerateProof(m, leaf) ==
    LET idx == leafIndex(m.Leafs, leaf)
    IN  IF idx = -1 THEN [ok |-> FALSE, proof |-> <<>>]
        ELSE [ok |-> TRUE,
              proof |-> generateProofHelperWithOptions(m.Leafs, idx, m.Options)]

RECURSIVE foldProof(_, _, _)
foldProof(currentHash, proof, options) ==
    IF proof = <<>> THEN currentHash
    ELSE foldProof(hashPairWithOptions(currentHash, Head(proof), options),
                   Tail(proof), options)

\* A verification that also accepts a leaf equal to the root.
VerifyLeafOrFold(root, leaf, proof, options) ==
    leaf = root \/ foldProof(leaf, proof, options) = root

VerifyProofWithOptions(root, leaf, proof, options) ==
    foldProof(leaf, proof, options) = root

\* ------------------------------------------------------------------------
\* package merkle: MerkleModule
\* ------------------------------------------------------------------------
NoResult == [err |-> TRUE, MerkleRoot |-> <<>>, Proofs |-> <<>>]

\* MerkleModule.GenerateFromLeaves.  MerkleRoot and the proofs are kept as
\* the bytes that the result renders in hex.
GenerateFromLeaves(leaves, options) ==
    IF Len(leaves) = 0 THEN NoResult
    ELSE LET t == NewMerkleTreeWithOptions(leaves,
                     [SortedPairs |-> options.SortedPairs,
                      SortLeaves |-> options.SortLeaves])
         IN  IF ~t.ok \/ \E i \in 1..Len(leaves) : ~GenerateProof(t, leaves[i]).ok
             THEN NoResult
             ELSE [err |-> FALSE, MerkleRoot |-> t.Root,
                   Proofs |-> SubSeq([i \in 1..Len(leaves) |->
                                  [Leaf |-> leaves[i],
                                   Proof |-> GenerateProof(t, leaves[i]).proof]],
                                1, Len(leaves))]

\* ------------------------------------------------------------------------
\* package merkle: the legacy tree (last node of an odd level duplicated,
\* pairs always sorted)
\* ------------------------------------------------------------------------
hashPair(left, right) ==
    IF bytesCompare(left, right) > 0
    THEN Keccak256(right \o left)
    ELSE Keccak256(left \o right)

\* A legacy pairing pass that carries the last node of an odd level up.
legacyNextLevelPromoting(leaves) ==
    [k \in 1..((Len(leaves) + 1) \div 2) |->
        IF 2 * k > Len(leaves)
        THEN leaves[2 * k - 1]
        ELSE hashPair(leaves[2 * k - 1], leaves[2 * k])]

\* The pairing loop of the legacy buildTree.
legacyNextLevel(leaves) ==
    [k \in 1..((Len(leaves) + 1) \div 2) |->
        IF 2 * k > Len(leaves)
        THEN hashPair(leaves[2 * k - 1], leaves[2 * k - 1])
        ELSE hashPair(leaves[2 * k - 1], leaves[2 * k])]

\* The legacy buildTree.
RECURSIVE buildTree(_)
buildTree(leaves) ==
    IF Len(leaves) = 0 THEN [err |-> TRUE, root |-> <<>>]
    ELSE IF Len(leaves) = 1 THEN [err |-> FALSE, root |-> leaves[1]]
    ELSE buildTree(legacyNextLevel(leaves))

\* The legacy NewMerkleTree.
NewMerkleTree(leaves) ==
    IF Len(leaves) = 0 \/ buildTree(leaves).err
    THEN [ok |-> FALSE, Root |-> <<>>, Leafs |-> <<>>]
    ELSE [ok |-> TRUE, Root |-> buildTree(leaves).root, Leafs |-> leaves]

\* ------------------------------------------------------------------------
\* Strings and numbers
\*
\* A string is a sequence of one-character strings.  A natural number of
\* arbitrary size (math/big nat) is the sequence of its base-65536 digits
\* ("limbs"), least significant first, without high zero limbs; a big.Int
\* is a sign and such a magnitude.  A uint64 is a sequence of exactly 4
\* limbs.
\* ------------------------------------------------------------------------
LowerDigits == <<"0", "1", "2", "3", "4", "5", "6", "7", "8", "9",
                 "a", "b", "c", "d", "e", "f", "g", "h", "i", "j", "k", "l", "m",
                 "n", "o", "p", "q", "r", "s", "t", "u", "v", "w", "x", "y", "z">>
UpperDigits == <<"0", "1", "2", "3", "4", "5", "6", "7", "8", "9",
                 "A", "B", "C", "D", "E", "F", "G", "H", "I", "J", "K", "L", "M",
                 "N", "O", "P", "Q", "R", "S", "T", "U", "V", "W", "X", "Y", "Z">>

\* The digit value of a character ('0'..'9', 'a'..'z', 'A'..'Z'), or 36
\* when it is no digit in any base up to 36.
digitVal(ch) ==
    IF \E i \in 1..36 : LowerDigits[i] = ch
    THEN (CHOOSE i \in 1..36 : LowerDigits[i] = ch) - 1
    ELSE IF \E i \in 1..36 : UpperDigits[i] = ch
    THEN (CHOOSE i \in 1..36 : UpperDigits[i] = ch) - 1
    ELSE 36

Rep(ch, n) == SubSeq([i \in 1..n |-> ch], 1, n)
Reverse(s) == SubSeq([i \in 1..Len(s) |-> s[Len(s) + 1 - i]], 1, Len(s))
Last(s) == s[Len(s)]
Front(s) == SubSeq(s, 1, Len(s) - 1)
HasPrefix(s, p) == Len(s) >= Len(p) /\ SubSeq(s, 1, Len(p)) = p
Drop(s, n) == SubSeq(s, n + 1, Len(s))

Limb == 65536

RECURSIVE natNorm(_)
natNorm(x) ==
    IF x = <<>> THEN <<>>
    ELSE IF Last(x) = 0 THEN natNorm(Front(x))
    ELSE x

\* x * m + c for m <= 10000 and c < Limb.
RECURSIVE natMulAdd(_, _, _)
natMulAdd(x, m, c) ==
    IF x = <<>>
    THEN IF c = 0 THEN <<>> ELSE <<c>>
    ELSE LET t == Head(x) * m + c
         IN  <<t % Limb>> \o natMulAdd(Tail(x), m, t \div Limb)

\* The low width limbs of x.
padHigh(x, width) ==
    IF Len(x) >= width THEN SubSeq(x, 1, width)
    ELSE x \o Rep(0, width - Len(x))

RECURSIVE addOneFixed(_)
addOneFixed(x) ==
    IF x = <<>> THEN <<>>
    ELSE IF Head(x) = Limb - 1 THEN <<0>> \o addOneFixed(Tail(x))
    ELSE <<Head(x) + 1>> \o Tail(x)

\* Two's complement negation within Len(x) limbs.
negateFixed(x) ==
    addOneFixed(SubSeq([i \in 1..Len(x) |-> Limb - 1 - x[i]], 1, Len(x)))

\* byte(u >> (i*8)) of a number given by its limbs.
byteAt(u, i) ==
    IF i % 2 = 0 THEN u[(i \div 2) + 1] % 256 ELSE u[(i \div 2) + 1] \div 256

\* The low n bytes of the limbs u, big-endian.
bigEndian(u, n) == SubSeq([k \in 1..n |-> byteAt(u, n - k)], 1, n)

BigZero == [neg |-> FALSE, abs |-> <<>>]

\* strconv.ParseUint(s, 10, 64)
RECURSIVE parseUintLoop(_, _)
parseUintLoop(s, n) ==
    IF s = <<>> THEN [ok |-> TRUE, val |-> padHigh(n, 4)]
    ELSE LET d == digitVal(Head(s))
         IN  IF d >= 10 THEN [ok |-> FALSE, val |-> Rep(0, 4)]
             ELSE LET n1 == natMulAdd(n, 10, d)
                  IN  IF Len(n1) > 4 THEN [ok |-> FALSE, val |-> Rep(Limb - 1, 4)]
                      ELSE parseUintLoop(Tail(s), n1)

ParseUint(s) ==
    IF s = <<>> THEN [ok |-> FALSE, val |-> Rep(0, 4)]
    ELSE parseUintLoop(s, <<>>)

\* big.NewInt(int64(val)) for a uint64 val: the sign bit of val becomes the
\* sign and the magnitude is that of the two's complement reading.
NewIntOfInt64(val) ==
    IF val[4] >= Limb \div 2
    THEN [neg |-> TRUE, abs |-> natNorm(negateFixed(val))]
    ELSE [neg |-> FALSE, abs |-> natNorm(val)]

\* The value of at most 4 digits of the base, as an int.
RECURSIVE chunkVal(_, _)
chunkVal(s, base) ==
    IF s = <<>> THEN 0 ELSE chunkVal(Front(s), base) * base + digitVal(Last(s))

RECURSIVE smallPow(_, _)
smallPow(base, n) == IF n = 0 THEN 1 ELSE base * smallPow(base, n - 1)

\* nat.scan: the digits are taken in chunks that fit a word.
ChunkLen(base) == IF base = 10 THEN 4 ELSE 3

RECURSIVE scanChunks(_, _)
scanChunks(s, base) ==
    IF Len(s) <= ChunkLen(base)
    THEN natMulAdd(<<>>, 1, chunkVal(s, base))
    ELSE LET cut == Len(s) - ChunkLen(base)
         IN  natMulAdd(scanChunks(SubSeq(s, 1, cut), base),
                       smallPow(base, ChunkLen(base)),
                       chunkVal(Drop(s, cut), base))

\* (*big.Int).SetString(s, base) for base 10 or 16: an optional sign, then
\* one or more digits of the base and nothing else.
SetString(s, base) ==
    LET signed == s # <<>> /\ Head(s) \in {"+", "-"}
        neg == s # <<>> /\ Head(s) = "-"
        digits == IF signed THEN Tail(s) ELSE s
    IN  IF digits = <<>> \/ \E i \in 1..Len(digits) : digitVal(digits[i]) >= base
        THEN [ok |-> FALSE, val |-> BigZero]
        ELSE LET abs == scanChunks(digits, base)
             IN  [ok |-> TRUE, val |-> [neg |-> neg /\ abs # <<>>, abs |-> abs]]

\* models.parseBigIntString
parseBigIntString(s) ==
    IF s = <<>> THEN [ok |-> TRUE, val |-> BigZero]
    ELSE IF HasPrefix(s, <<"0", "x">>) \/ HasPrefix(s, <<"0", "X">>)
    THEN SetString(Drop(s, 2), 16)
    ELSE IF ParseUint(s).ok
    THEN [ok |-> TRUE, val |-> NewIntOfInt64(ParseUint(s).val)]
    ELSE SetString(s, 10)

\* utils.parseBigInt
parseBigInt(s) ==
    IF s = <<>> THEN [ok |-> FALSE, val |-> BigZero]
    ELSE IF HasPrefix(s, <<"0", "x">>) \/ HasPrefix(s, <<"0", "X">>)
    THEN SetString(Drop(s, 2), 16)
    ELSE IF ParseUint(s).ok
    THEN [ok |-> TRUE, val |-> NewIntOfInt64(ParseUint(s).val)]
    ELSE SetString(s, 10)

\* (*big.Int).Uint64(): the low 64 bits of the magnitude, whatever the sign.
Uint64(x) == padHigh(x.abs, 4)

\* The loop  b[7-i] = byte(u >> (i*8)), i = 0..7: 8 bytes, big-endian.
uint64Bytes(u) == bigEndian(u, 8)

\* ------------------------------------------------------------------------
\* Hex strings and addresses
\* ------------------------------------------------------------------------
IsHexChar(ch) == digitVal(ch) < 16

\* encoding/hex Decode: the bytes decoded before the first error, and
\* whether there was an error (a character that is no hex digit, or an odd
\* number of characters).
hexDecode(s) ==
    LET pairs == Len(s) \div 2
        good(k) == \A i \in 1..(2 * k) : IsHexChar(s[i])
        n == IF good(pairs) THEN pairs
             ELSE CHOOSE k \in 0..(pairs - 1) : good(k) /\ ~good(k + 1)
    IN  [err |-> n < pairs \/ Len(s) % 2 = 1,
         bytes |-> SubSeq([k \in 1..n |->
                              digitVal(s[2 * k - 1]) * 16 + digitVal(s[2 * k])],
                          1, n)]

\* utils.HexToBytes
HexToBytes(hexStr) ==
    IF HasPrefix(hexStr, <<"0", "x">>)
    THEN hexDecode(Drop(hexStr, 2))
    ELSE hexDecode(hexStr)

AddressLength == 20

\* common.HexToAddress: strip 0x or 0X, prepend "0" to an odd number of
\* characters, decode as far as the string is hex (errors dropped), keep
\* the last 20 bytes and pad on the left with zeros to 20 bytes.
HexToAddress(s) ==
    LET s1 == IF HasPrefix(s, <<"0", "x">>) \/ HasPrefix(s, <<"0", "X">>)
              THEN Drop(s, 2) ELSE s
        s2 == IF Len(s1) % 2 = 1 THEN <<"0">> \o s1 ELSE s1
        b  == hexDecode(s2).bytes
        b1 == IF Len(b) > AddressLength
              THEN SubSeq(b, Len(b) - AddressLength + 1, Len(b)) ELSE b
    IN  Rep(0, AddressLength - Len(b1)) \o b1

LeftPadBytes(b, l) == IF l <= Len(b) THEN b ELSE Rep(0, l - Len(b)) \o b
RightPadBytes(b, l) == IF l <= Len(b) THEN b ELSE b \o Rep(0, l - Len(b))

\* ------------------------------------------------------------------------
\* ABI encoding of  tuple(address to, uint256 value, bytes data)[]
\* ------------------------------------------------------------------------
\* A small non-negative int as a 32-byte big-endian word.
packInt(n) == bigEndian(padHigh(<<n % Limb, n \div Limb>>, 16), 32)

\* math.U256Bytes of a big.Int: the value modulo 2^256 (two's complement
\* for a negative value) as 32 bytes, big-endian.
packBigInt(x) ==
    LET low == padHigh(x.abs, 16)
    IN  bigEndian(IF x.neg THEN negateFixed(low) ELSE low, 32)

packBytesSlice(data) ==
    packInt(Len(data)) \o RightPadBytes(data, ((Len(data) + 31) \div 32) * 32)

\* One tuple: to, value, offset of data (3 words = 96), then data.
packCall(c) ==
    LeftPadBytes(c.To, 32) \o packBigInt(c.Value) \o packInt(96)
        \o packBytesSlice(c.Data)

RECURSIVE concatAll(_)
concatAll(ss) == IF ss = <<>> THEN <<>> ELSE Head(ss) \o concatAll(Tail(ss))

\* The offset of element k of the array: after the n offset words and the
\* encodings of the elements before it.
RECURSIVE elemOffset(_, _)
elemOffset(packed, k) ==
    IF k = 1 THEN 32 * Len(packed)
    ELSE elemOffset(packed, k - 1) + Len(packed[k - 1])

\* A packing that starts at the length word, without the offset word of
\* the argument.
packCallsWithoutArgumentOffset(calls) ==
    LET packed == [k \in 1..Len(calls) |-> packCall(calls[k])]
    IN  packInt(Len(calls))
            \o concatAll([k \in 1..Len(calls) |-> packInt(elemOffset(packed, k))])
            \o concatAll(packed)

\* Arguments.Pack of the one dynamic argument: the offset word 32, the
\* length word, one offset word per element, the elements.
packCalls(calls) ==
    LET packed == [k \in 1..Len(calls) |-> packCall(calls[k])]
    IN  packInt(32) \o packInt(Len(calls))
            \o concatAll([k \in 1..Len(calls) |-> packInt(elemOffset(packed, k))])
            \o concatAll(packed)

\* ------------------------------------------------------------------------
\* package models: JSON values
\* ------------------------------------------------------------------------
\* A JSON token of a call's value: a JSON string or a JSON number, with its
\* text.  (*BigInt).UnmarshalJSON hands the text to parseBigIntString.
UnmarshalJSON(tok) == parseBigIntString(tok.text)

\* ------------------------------------------------------------------------
\* package utils: leaf encoding
\* ------------------------------------------------------------------------
LeafEncodingVersion == 1

NoLeaf == [err |-> TRUE, data |-> <<>>, leaf |-> <<>>]

RECURSIVE callsForAbi(_)
callsForAbi(calls) ==
    IF calls = <<>> THEN [err |-> FALSE, calls |-> <<>>]
    ELSE LET call == Head(calls)
             callData == HexToBytes(call.Data)
             rest == callsForAbi(Tail(calls))
         IN  IF callData.err \/ rest.err THEN [err |-> TRUE, calls |-> <<>>]
             ELSE [err |-> FALSE,
                   calls |-> <<[To |-> HexToAddress(call.To),
                                Value |-> IF call.Value.present
                                          THEN call.Value.int ELSE BigZero,
                                Data |-> callData.bytes]>> \o rest.calls]

\* utils.encodeLeafV1; data is the byte string that is hashed twice.
encodeLeafV1(leaf) ==
    LET oneSigID == parseBigInt(leaf.OneSigId)
        nonce == parseBigInt(leaf.Nonce)
        addrBytes == LeftPadBytes(HexToAddress(leaf.TargetOneSigAddress), 32)
        forAbi == callsForAbi(leaf.Calls)
    IN  IF ~oneSigID.ok \/ ~nonce.ok \/ forAbi.err THEN NoLeaf
        ELSE LET leafData == <<LeafEncodingVersion>>
                                \o uint64Bytes(Uint64(oneSigID.val))
                                \o addrBytes
                                \o uint64Bytes(Uint64(nonce.val))
                                \o packCalls(forAbi.calls)
             IN  [err |-> FALSE, data |-> leafData,
                  leaf |-> Keccak256(Keccak256(leafData))]

\* An encoder that applies the version 1 encoding whatever the version.
EncodeLeafAnyVersion(leaf, version) == encodeLeafV1(leaf)

\* utils.EncodeLeafV2
EncodeLeafV2(leaf, version) ==
    IF version = 1 THEN encodeLeafV1(leaf) ELSE NoLeaf

\* ------------------------------------------------------------------------
\* Inputs of the tree model
\* ------------------------------------------------------------------------
\* A leaf is a double hash of its (here one byte long) leaf data.
LeafVal(k) == Keccak256(Keccak256(<<k>>))
LeafVals == {LeafVal(k) : k \in 1..NumLeafVals}

RECURSIVE SeqsUpTo(_, _)
SeqsUpTo(S, n) ==
    IF n = 0 THEN {<<>>}
    ELSE LET shorter == SeqsUpTo(S, n - 1)
         IN  shorter \cup {Append(s, x) : s \in {t \in shorter : Len(t) = n - 1}, x \in S}

LeafSeqs == SeqsUpTo(LeafVals, MaxLeaves)

\* Values handed to the verification: leaves and the two nodes over the
\* first two leaves, in proofs of up to MaxProofLen elements.
DigestVals ==
    LeafVals \cup {Keccak256(LeafVal(1) \o LeafVal(2)),
                   Keccak256(LeafVal(2) \o LeafVal(1))}
ProofSeqs == SeqsUpTo(DigestVals, MaxProofLen)

\* ------------------------------------------------------------------------
\* Inputs of the leaf-encoding model
\* ------------------------------------------------------------------------
\* Writing a natural number in base 10 or 16 (used to build inputs): the
\* number is divided by base^ChunkLen and each remainder gives ChunkLen
\* digits.
RECURSIVE divLimbs(_, _, _)
divLimbs(high, d, rem) ==
    IF high = <<>> THEN [q |-> <<>>, r |-> rem]
    ELSE LET t == rem * Limb + Head(high)
             rest == divLimbs(Tail(high), d, t % d)
         IN  [q |-> <<t \div d>> \o rest.q, r |-> rest.r]

RECURSIVE smallText(_, _, _)
smallText(n, base, width) ==
    IF width = 0 THEN <<>>
    ELSE Append(smallText(n \div base, base, width - 1), LowerDigits[(n % base) + 1])

RECURSIVE stripZeros(_)
stripZeros(t) == IF Len(t) > 1 /\ Head(t) = "0" THEN stripZeros(Tail(t)) ELSE t

RECURSIVE natText(_, _)
natText(x, base) ==
    IF x = <<>> THEN <<>>
    ELSE LET dm == divLimbs(Reverse(x), smallPow(base, ChunkLen(base)), 0)
         IN  natText(natNorm(Reverse(dm.q)), base)
                 \o smallText(dm.r, base, ChunkLen(base))

DecText(x) == stripZeros(<<"0">> \o natText(x, 10))
HexText(x) == <<"0", "x">> \o stripZeros(<<"0">> \o natText(x, 16))

Two63 == <<0, 0, 0, 32768>>
Two64 == <<0, 0, 0, 0, 1>>
Two256 == Rep(0, 16) \o <<1>>

\* Numbers that fit 64 bits, and numbers that do not.
Nats64 == {<<>>, <<1>>, <<7>>, <<256>>, <<0, 1>>,
           <<65535, 65535, 65535, 32767>>, Two63, <<1, 0, 0, 32768>>,
           Rep(65535, 4)}
NatsOver64 == {Two64, <<1, 0, 0, 0, 1>>, <<7, 0, 0, 0, 1>>}
Nats256 == Nats64 \cup NatsOver64 \cup {Rep(65535, 16)}
NatsOver256 == {Two256, <<1>> \o Rep(0, 15) \o <<1>>}

IdTexts ==
    {DecText(v) : v \in Nats64 \cup NatsOver64}
        \cup {HexText(v) : v \in Nats64 \cup NatsOver64}
        \cup {<<>>, <<"-", "1">>, <<"+", "1">>, <<"0", "1">>, <<"0", "X", "1">>,
              <<"0", "x">>, <<"1", "2", "a">>, <<"0", "x", "-", "1">>}

ValueTokens ==
    {[kind |-> "string", text |-> DecText(v)] : v \in Nats256 \cup NatsOver256}
        \cup {[kind |-> "number", text |-> DecText(v)] : v \in Nats256 \cup NatsOver256}
        \cup {[kind |-> "string", text |-> HexText(v)] : v \in Nats256 \cup NatsOver256}
        \cup {[kind |-> "string", text |-> <<>>],
              [kind |-> "string", text |-> <<"-", "1">>],
              [kind |-> "number", text |-> <<"-", "1">>],
              [kind |-> "number", text |-> <<"1", ".", "5">>],
              [kind |-> "string", text |-> <<"a", "b", "c">>]}
Absent == [kind |-> "absent", text |-> <<>>]

AddrA == <<"0", "x">> \o Rep("a", 40)
AddrB == <<"0", "x">> \o Rep("b", 40)
AddrTexts ==
    {AddrA, AddrB,
     <<"0", "x">> \o Rep("A", 40),              \* AddrA in upper case
     Rep("a", 40),                              \* AddrA without prefix
     <<"0", "x", "0", "1">> \o Rep("a", 40),    \* 21 bytes
     <<"0", "x", "d", "E", "a", "D">>,          \* 2 bytes
     <<"0", "x", "a", "b", "c">>,               \* odd number of digits
     <<"0", "x", "z", "z">>,                    \* no hex digits
     <<"0", "x">> \o Rep("a", 38) \o <<"z", "z">>,
     <<>>}

DataTexts ==
    {<<"0", "x">>, <<>>, <<"0", "x", "1", "2", "3", "4">>,
     <<"1", "2", "3", "4">>, <<"0", "x", "1", "2", "3", "5">>,
     <<"0", "x">> \o Rep("f", 66),              \* 33 bytes
     <<"0", "X", "1", "2">>, <<"0", "x", "a", "b", "c">>,
     <<"0", "x", "z", "z">>, <<"0", "x", "1", "2", "g", "h">>}

BaseCall == [To |-> AddrB, Value |-> [kind |-> "string", text |-> <<"0">>],
             Data |-> <<"0", "x">>]
BaseLeaf == [Nonce |-> <<"7">>, OneSigId |-> <<"1">>,
             TargetOneSigAddress |-> AddrA, Calls |-> <<BaseCall>>]

\* The JSON leaves: the base leaf with one field replaced.
JsonLeaves ==
    {[BaseLeaf EXCEPT !.OneSigId = t] : t \in IdTexts}
        \cup {[BaseLeaf EXCEPT !.Nonce = t] : t \in IdTexts}
        \cup {[BaseLeaf EXCEPT !.TargetOneSigAddress = t] : t \in AddrTexts}
        \cup {[BaseLeaf EXCEPT !.Calls = <<[BaseCall EXCEPT !.To = t]>>] : t \in AddrTexts}
        \cup {[BaseLeaf EXCEPT !.Calls = <<[BaseCall EXCEPT !.Value = t]>>] :
                 t \in ValueTokens \cup {Absent}}
        \cup {[BaseLeaf EXCEPT !.Calls = <<[BaseCall EXCEPT !.Data = t]>>] : t \in DataTexts}
        \cup {[BaseLeaf EXCEPT !.Calls = <<>>],
              [BaseLeaf EXCEPT !.Calls = <<BaseCall, BaseCall>>],
              [BaseLeaf EXCEPT !.Calls = <<BaseCall, [BaseCall EXCEPT !.To = AddrA]>>]}

Versions == {0, 1, 2}

\* json.Unmarshal of a leaf: each value token present goes through
\* UnmarshalJSON; an absent value leaves the pointer nil.
unmarshalCall(c) ==
    LET r == UnmarshalJSON(c.Value)
    IN  IF c.Value = Absent
        THEN [ok |-> TRUE,
              call |-> [To |-> c.To, Data |-> c.Data,
                        Value |-> [present |-> FALSE, int |-> BigZero]]]
        ELSE [ok |-> r.ok,
              call |-> [To |-> c.To, Data |-> c.Data,
                        Value |-> [present |-> TRUE, int |-> r.val]]]

unmarshalLeaf(j) ==
    [ok |-> \A k \in 1..Len(j.Calls) : unmarshalCall(j.Calls[k]).ok,
     leaf |-> [Nonce |-> j.Nonce, OneSigId |-> j.OneSigId,
               TargetOneSigAddress |-> j.TargetOneSigAddress,
               Calls |-> SubSeq([k \in 1..Len(j.Calls) |->
                                    unmarshalCall(j.Calls[k]).call],
                                1, Len(j.Calls))]]

\* json.Unmarshal of the leaf j and, when that succeeds,
\* EncodeLeafV2(leaf, version).
encodeJson(j, version) ==
    LET u == unmarshalLeaf(j)
    IN  [called |-> TRUE, json |-> j, parsed |-> u.ok, leaf |-> u.leaf,
         version |-> version,
         res |-> IF u.ok THEN EncodeLeafV2(u.leaf, version) ELSE NoLeaf]

\* The outcome of every call the model makes, computed once.
EncodeCalls == {encodeJson(j, version) : j \in JsonLeaves, version \in Versions}
encodeCall(j, version) ==
    CHOOSE e \in EncodeCalls : e.json = j /\ e.version = version

\* ------------------------------------------------------------------------
\* package cmd: the encode command's validation
\* ------------------------------------------------------------------------
NoError == "nil"

\* The loop over a leaf's calls: the first call without to or value fails.
validateCalls(calls) ==
    LET bad == {i \in 1..Len(calls) :
                   calls[i].To = <<>> \/ ~calls[i].Value.present}
        first == CHOOSE i \in bad : \A k \in bad : i <= k
    IN  IF bad = {} THEN NoError
        ELSE IF calls[first].To = <<>> THEN "'to' address is required"
        ELSE "'value' is required"

\* The loop of validateInput over the leaves; nonceMap holds the
\* (oneSigId, nonce) pairs of strings seen so far.
RECURSIVE validateLeaves(_, _)
validateLeaves(ls, nonceMap) ==
    IF ls = <<>> THEN NoError
    ELSE LET leaf == Head(ls)
         IN  IF leaf.OneSigId = <<>> THEN "oneSigId is required"
             ELSE IF leaf.Nonce = <<>> THEN "nonce is required"
             ELSE IF leaf.TargetOneSigAddress = <<>>
             THEN "targetOneSigAddress is required"
             ELSE IF Len(leaf.Calls) = 0 THEN "at least one call is required"
             ELSE IF <<leaf.OneSigId, leaf.Nonce>> \in nonceMap
             THEN "duplicate nonce"
             ELSE IF validateCalls(leaf.Calls) # NoError
             THEN validateCalls(leaf.Calls)
             ELSE validateLeaves(Tail(ls),
                                 nonceMap \cup {<<leaf.OneSigId, leaf.Nonce>>})

\* cmd.validateInput
validateInput(input) ==
    IF Len(input) = 0 THEN "no leaves provided"
    ELSE validateLeaves(input, {})

\* Inputs of the validation: leaves whose oneSigId and nonce are written
\* in several ways, and leaves with a required field missing.
ValidateIdTexts == {<<"1">>, <<"0", "x", "1">>, <<"0", "1">>, <<"2">>}
ValidateNonceTexts == {<<"7">>, <<"0", "x", "7">>, <<"8">>}
ValidateLeaves ==
    {[BaseLeaf EXCEPT !.OneSigId = i, !.Nonce = n] :
        i \in ValidateIdTexts, n \in ValidateNonceTexts}
        \cup {[BaseLeaf EXCEPT !.OneSigId = <<>>],
              [BaseLeaf EXCEPT !.Nonce = <<>>],
              [BaseLeaf EXCEPT !.TargetOneSigAddress = <<>>],
              [BaseLeaf EXCEPT !.Calls = <<>>],
              [BaseLeaf EXCEPT !.Calls = <<[BaseCall EXCEPT !.To = <<>>]>>],
              [BaseLeaf EXCEPT !.Calls = <<[BaseCall EXCEPT !.Value = Absent]>>]}
ValidateInputs == SeqsUpTo(ValidateLeaves, MaxInputLeaves)

\* ------------------------------------------------------------------------
\* package cmd: the flags of the two commands
\* ------------------------------------------------------------------------
\* Default values of the BoolVar(P) flag definitions.
MerkleSortedPairsDefault == FALSE
MerkleSortLeavesDefault == FALSE
EncodeSortedPairsDefault == TRUE
EncodeSortLeavesDefault == FALSE

\* A boolean flag on the command line: not given, or given as true/false.
FlagSettings == {"unset", "true", "false"}
flagValue(setting, default) ==
    IF setting = "unset" THEN default ELSE setting = "true"

\* ------------------------------------------------------------------------
\* package cmd: a run of the encode command
\* ------------------------------------------------------------------------
\* fmt.Sprintf("0x%x", b) of a digest: the prefix and the digest's symbols.
leafHex(b) == <<"0", "x">> \o b

\* The outcome of json.Unmarshal and EncodeLeafV2 on every leaf the command
\* is run on, computed once.
InputEncodeCalls ==
    {encodeJson(j, version) : j \in ValidateLeaves, version \in Versions}
inputEncodeCall(j, version) ==
    CHOOSE e \in InputEncodeCalls : e.json = j /\ e.version = version

\* The map the encoding loop fills: each key holds the leaf of the last
\* iteration that wrote it.
leafToOriginalAfter(ls, encodedLeaves) ==
    [key \in {leafHex(encodedLeaves[i]) : i \in 1..Len(ls)} |->
        ls[CHOOSE i \in 1..Len(ls) :
              /\ leafHex(encodedLeaves[i]) = key
              /\ \A k \in 1..Len(ls) : leafHex(encodedLeaves[k]) = key => k <= i]]

\* The loop that generates one output entry per encoded leaf.
proofsOf(t, encodedLeaves, leafToOriginal) ==
    SubSeq([i \in 1..Len(encodedLeaves) |->
               LET proof == GenerateProof(t, encodedLeaves[i]).proof
                   originalLeaf == leafToOriginal[leafHex(encodedLeaves[i])]
               IN  [Leaf |-> leafHex(encodedLeaves[i]),
                    Nonce |-> originalLeaf.Nonce,
                    OneSigId |-> originalLeaf.OneSigId,
                    TargetOneSigAddress |-> originalLeaf.TargetOneSigAddress,
                    Proof |-> SubSeq([k \in 1..Len(proof) |-> leafHex(proof[k])],
                                     1, Len(proof))]],
           1, Len(encodedLeaves))

NoOutput == [err |-> NoError, MerkleRoot |-> <<>>, Proofs |-> <<>>]
failedRun(err) == [NoOutput EXCEPT !.err = err]

\* encodeCmd.RunE on the parsed file content input, with the flags
\* leafEncodingVersion, sortedPairs and sortLeaves.
encodeCmdRunE(input, version, options) ==
    LET n == Len(input)
        calls == SubSeq([i \in 1..n |-> inputEncodeCall(input[i], version)], 1, n)
        ls == SubSeq([i \in 1..n |-> calls[i].leaf], 1, n)
        encodedLeaves == SubSeq([i \in 1..n |-> calls[i].res.leaf], 1, n)
        t == NewMerkleTreeWithOptions(encodedLeaves, options)
    IN  IF \E i \in 1..n : ~calls[i].parsed
        THEN failedRun("failed to parse input JSON")
        ELSE IF validateInput(ls) # NoError
        THEN failedRun("input validation failed")
        ELSE IF \E i \in 1..n : calls[i].res.err
        THEN failedRun("failed to encode leaf")
        ELSE IF ~t.ok
        THEN failedRun("failed to generate merkle tree")
        ELSE IF \E i \in 1..n : ~GenerateProof(t, encodedLeaves[i]).ok
        THEN failedRun("failed to generate proof")
        ELSE [err |-> NoError, MerkleRoot |-> leafHex(t.Root),
              Proofs |-> proofsOf(t, encodedLeaves,
                                  leafToOriginalAfter(ls, encodedLeaves))]

\* ------------------------------------------------------------------------
\* State
\* ------------------------------------------------------------------------
VARIABLES
    leaves,     \* the caller's leaf sequence handed to NewMerkleTreeWithOptions
    built,      \* TRUE once NewMerkleTreeWithOptions has been called
    tree,       \* the MerkleTree it returned (NoTree on error)
    proved,     \* the last GenerateProof call: its argument and result
    verified,   \* the last VerifyProofWithOptions call: arguments and result
    enc,        \* the last leaf encoding: its input and its result
    validated,  \* the last validateInput call: its input and its error
    callerLeaves, \* the caller's leaf sequence after NewMerkleTreeWithOptions
    cmd,        \* the last run of the merkle command: flags, leaves, result
    legacy,     \* the last build of one leaf sequence by both trees
    output      \* the last run of the encode command: input, flags, result

treeVars == <<leaves, built, tree, proved, verified, callerLeaves>>
cmdVars == <<cmd, legacy, output>>
vars == <<leaves, built, tree, proved, verified, enc, validated, callerLeaves,
          cmd, legacy, output>>

NoProof == [called |-> FALSE, leaf |-> <<>>, ok |-> FALSE, proof |-> <<>>]
NoVerify == [called |-> FALSE, root |-> <<>>, leaf |-> <<>>, proof |-> <<>>,
             options |-> [SortedPairs |-> FALSE, SortLeaves |-> FALSE],
             result |-> FALSE]

\* No encoding yet: json is the input, leaf what json.Unmarshal made of it,
\* res what EncodeLeafV2 returned.
NoEnc == [called |-> FALSE, json |-> BaseLeaf, parsed |-> FALSE,
          leaf |-> unmarshalLeaf(BaseLeaf).leaf, version |-> 0, res |-> NoLeaf]

NoValidation == [called |-> FALSE, input |-> <<>>, err |-> NoError]

NoCmd == [called |-> FALSE, sortedPairs |-> "unset", sortLeaves |-> "unset",
          leaves |-> <<>>,
          options |-> [SortedPairs |-> FALSE, SortLeaves |-> FALSE],
          result |-> NoResult]

NoLegacy == [called |-> FALSE, leaves |-> <<>>,
             legacy |-> NewMerkleTree(<<>>), current |-> NoTree]

NoRun == [called |-> FALSE, input |-> <<>>, version |-> 0,
          options |-> [SortedPairs |-> FALSE, SortLeaves |-> FALSE],
          result |-> NoOutput]

Init ==
    /\ leaves = <<>>
    /\ built = FALSE
    /\ tree = NoTree
    /\ proved = NoProof
    /\ verified = NoVerify
    /\ enc = NoEnc
    /\ validated = NoValidation
    /\ callerLeaves = <<>>
    /\ cmd = NoCmd
    /\ legacy = NoLegacy
    /\ output = NoRun

\* tree, err := NewMerkleTreeWithOptions(leaves, options)
CallNewMerkleTree ==
    /\ ~built
    /\ \E ls \in LeafSeqs, options \in TreeOptions :
          /\ leaves' = ls
          /\ tree' = NewMerkleTreeWithOptions(ls, options)
          /\ callerLeaves' = callerLeavesAfter(ls, options)
    /\ built' = TRUE
    /\ UNCHANGED <<proved, verified, enc, validated, cmdVars>>

\* proof, err := tree.GenerateProof(leaf)
CallGenerateProof ==
    /\ tree.ok
    /\ \E leaf \in LeafVals :
          LET r == GenerateProof(tree, leaf)
          IN  proved' = [called |-> TRUE, leaf |-> leaf, ok |-> r.ok,
                         proof |-> r.proof]
    /\ UNCHANGED <<leaves, built, tree, verified, enc, validated, callerLeaves,
                   cmdVars>>

\* VerifyProofWithOptions(tree.Root, leaf, proof, tree.Options) on the proof
\* that GenerateProof returned.
CallVerifyProof ==
    /\ tree.ok
    /\ proved.called /\ proved.ok
    /\ verified' = [called |-> TRUE, root |-> tree.Root, leaf |-> proved.leaf,
                    proof |-> proved.proof, options |-> tree.Options,
                    result |-> VerifyProofWithOptions(tree.Root, proved.leaf,
                                                      proved.proof, tree.Options)]
    /\ UNCHANGED <<leaves, built, tree, proved, enc, validated, callerLeaves,
                   cmdVars>>

Next ==
    \/ CallNewMerkleTree
    \/ CallGenerateProof
    \/ CallVerifyProof

Spec == Init /\ [][Next]_vars

\* The encode command's handling of one leaf: json.Unmarshal, then
\* EncodeLeafV2(leaf, leafEncodingVersion).
CallEncodeLeaf ==
    /\ \E j \in JsonLeaves, version \in Versions :
          enc' = encodeCall(j, version)
    /\ UNCHANGED <<treeVars, validated, cmdVars>>

NextEncode == CallEncodeLeaf

SpecEncode == Init /\ [][NextEncode]_vars

\* The encode command up to its validation: json.Unmarshal of the input
\* file, then validateInput(input).
CallValidateInput ==
    /\ \E input \in ValidateInputs :
          LET ls == SubSeq([k \in 1..Len(input) |-> unmarshalLeaf(input[k]).leaf],
                           1, Len(input))
          IN  validated' = [called |-> TRUE, input |-> input,
                            err |-> validateInput(ls)]
    /\ UNCHANGED <<treeVars, enc, cmdVars>>

NextValidate == CallValidateInput

SpecValidate == Init /\ [][NextValidate]_vars

\* VerifyProofWithOptions called by anyone, on any root, leaf and proof.
CallVerifyAny ==
    /\ ~verified.called
    /\ \E leaf \in DigestVals, proof \in ProofSeqs, options \in TreeOptions :
          \E root \in DigestVals \cup {foldProof(leaf, proof, options)} :
              verified' = [called |-> TRUE, root |-> root, leaf |-> leaf,
                           proof |-> proof, options |-> options,
                           result |-> VerifyProofWithOptions(root, leaf, proof,
                                                             options)]
    /\ UNCHANGED <<leaves, built, tree, proved, callerLeaves, enc, validated,
                   cmdVars>>

NextVerify == CallVerifyAny

SpecVerify == Init /\ [][NextVerify]_vars

\* A run of the merkle command on decoded leaves: the flags give the
\* options, module.GenerateFromLeaves gives the result.
RunMerkleCmd ==
    /\ ~cmd.called
    /\ \E ls \in LeafSeqs, sp \in FlagSettings, sl \in FlagSettings :
          LET options == [SortedPairs |-> flagValue(sp, MerkleSortedPairsDefault),
                          SortLeaves |-> flagValue(sl, MerkleSortLeavesDefault)]
          IN  cmd' = [called |-> TRUE, sortedPairs |-> sp, sortLeaves |-> sl,
                      leaves |-> ls, options |-> options,
                      result |-> GenerateFromLeaves(ls, options)]
    /\ UNCHANGED <<treeVars, enc, validated, legacy, output>>

NextMerkle == RunMerkleCmd

SpecMerkle == Init /\ [][NextMerkle]_vars

\* One leaf sequence built by the legacy tree and by the current tree with
\* sorted pairs.
CallBothTrees ==
    /\ ~legacy.called
    /\ \E ls \in LeafSeqs, sortLeaves \in BOOLEAN :
          legacy' = [called |-> TRUE, leaves |-> ls,
                     legacy |-> NewMerkleTree(ls),
                     current |-> NewMerkleTreeWithOptions(ls,
                                    [SortedPairs |-> TRUE,
                                     SortLeaves |-> sortLeaves])]
    /\ UNCHANGED <<treeVars, enc, validated, cmd, output>>

NextLegacy == CallBothTrees

SpecLegacy == Init /\ [][NextLegacy]_vars

\* A run of the encode command on the leaves of an input file.
RunEncodeCmd ==
    /\ ~output.called
    /\ \E input \in ValidateInputs, version \in Versions, options \in TreeOptions :
          output' = [called |-> TRUE, input |-> input, version |-> version,
                     options |-> options,
                     result |-> encodeCmdRunE(input, version, options)]
    /\ UNCHANGED <<treeVars, enc, validated, cmd, legacy>>

NextEncodeCmd == RunEncodeCmd

SpecEncodeCmd == Init /\ [][NextEncodeCmd]_vars

\* ------------------------------------------------------------------------
\* Properties of the tree (specification Spec)
\* ------------------------------------------------------------------------
HonestVerify ==
    /\ tree.ok
    /\ verified.called
    /\ verified.root = tree.Root
    /\ verified.options = tree.Options
    /\ \E i \in 1..Len(leaves) : leaves[i] = verified.leaf
    /\ verified.proof = GenerateProof(tree, verified.leaf).proof

\* C1: for every non-empty leaf sequence, every combination of sortedPairs
\* and sortLeaves and every leaf L of the sequence, verifying L against the
\* tree's root with the proof GenerateProof(L) returned and the tree's
\* options returns true.
C1_ProofValidAllOptions == HonestVerify => verified.result

Distinct3 ==
    /\ Len(leaves) = 3
    /\ leaves[1] # leaves[2] /\ leaves[1] # leaves[3] /\ leaves[2] # leaves[3]

\* C8: in a tree of 3 distinct leaves [L0, L1, L2] built without sortLeaves,
\* the proof of L2 is exactly [HashPair(L0, L1)], the proof of L0 is
\* exactly [L1, L2] and the proof of L1 is exactly [L0, L2].
C8_OddLeafProofShape ==
    (tree.ok /\ Distinct3 /\ ~tree.Options.SortLeaves /\ proved.called) =>
        /\ proved.leaf = leaves[3] =>
              /\ proved.ok
              /\ proved.proof =
                    <<hashPairWithOptions(leaves[1], leaves[2], tree.Options)>>
        /\ proved.leaf = leaves[1] =>
              proved.ok /\ proved.proof = <<leaves[2], leaves[3]>>
        /\ proved.leaf = leaves[2] =>
              proved.ok /\ proved.proof = <<leaves[1], leaves[3]>>

C8_Witness ==
    /\ tree.ok /\ Distinct3 /\ ~tree.Options.SortLeaves
    /\ proved.called /\ proved.leaf = leaves[3]
    /\ Len(proved.proof) = 1

\* C9: for two distinct leaves A and B, the trees built from [A, B] and
\* from [B, A] have equal roots when sortedPairs is true, and different
\* roots when sortedPairs and sortLeaves are both false.
C9_SortedPairsOrder ==
    (tree.ok /\ Len(leaves) = 2 /\ leaves[1] # leaves[2]) =>
        LET swapped == NewMerkleTreeWithOptions(<<leaves[2], leaves[1]>>,
                                                tree.Options)
        IN  /\ swapped.ok
            /\ tree.Options.SortedPairs => swapped.Root = tree.Root
            /\ (~tree.Options.SortedPairs /\ ~tree.Options.SortLeaves) =>
                  swapped.Root # tree.Root

C9_Witness ==
    /\ tree.ok /\ Len(leaves) = 2 /\ leaves[1] # leaves[2]
    /\ tree.Options.SortedPairs
    /\ bytesCompare(leaves[1], leaves[2]) > 0

\* C10: the tree built from the single leaf L has Root = L with no hash
\* applied, GenerateProof(L) is the empty sequence, and verifying L against
\* root L with the empty proof is true, for every options value.
C10_SingleLeafRoundTrip ==
    (built /\ Len(leaves) = 1) =>
        /\ tree.ok
        /\ tree.Root = leaves[1]
        /\ (proved.called /\ proved.leaf = leaves[1]) =>
              proved.ok /\ proved.proof = <<>>
        /\ (verified.called /\ verified.leaf = leaves[1]) =>
              /\ verified.root = leaves[1]
              /\ verified.proof = <<>>
              /\ verified.result

C10_Witness ==
    /\ tree.ok /\ Len(leaves) = 1
    /\ verified.called /\ verified.leaf = leaves[1] /\ verified.result

\* ------------------------------------------------------------------------
\* Properties of the leaf encoding (specification SpecEncode)
\* ------------------------------------------------------------------------
Encoded == enc.called /\ enc.parsed /\ enc.version = 1 /\ ~enc.res.err

\* Places in the hashed byte string of a leaf with one call.
oneSigIdBytesOf(data) == SubSeq(data, 2, 9)
nonceBytesOf(data) == SubSeq(data, 42, 49)
valueWordOf(data) == SubSeq(data, 49 + 128 + 1, 49 + 160)

IsTextOf(text, v) == text = DecText(v) \/ text = HexText(v)

\* The integer a text denotes: 0x or 0X and hexadecimal digits, or decimal
\* digits, read without any limit of width.
denotedInt(text) ==
    IF HasPrefix(text, <<"0", "x">>) \/ HasPrefix(text, <<"0", "X">>)
    THEN SetString(Drop(text, 2), 16)
    ELSE SetString(text, 10)

\* C2: a call value v with 0 <= v < 2^256, given as a decimal string, a
\* JSON number or a 0x-hex string, reaches the encoder as the integer v, and
\* the value word of the encoded call is v as 32 bytes big-endian.
C2_CallValueEncoding ==
    \A v \in Nats256 :
        (/\ enc.called
         /\ Len(enc.json.Calls) = 1
         /\ enc.json.Calls[1].Value # Absent
         /\ IsTextOf(enc.json.Calls[1].Value.text, v)) =>
            /\ enc.parsed
            /\ enc.leaf.Calls[1].Value.int = [neg |-> FALSE, abs |-> v]
            /\ enc.version = 1 =>
                  /\ ~enc.res.err
                  /\ valueWordOf(enc.res.data) = bigEndian(padHigh(v, 16), 32)

OutOfRange64(text) ==
    LET r == denotedInt(text)
    IN  r.ok /\ (r.val.neg \/ Len(r.val.abs) > 4)

\* C3: EncodeLeafV2(record, 1) returns an error whenever the parsed
\* oneSigId or the parsed nonce is negative or greater than 2^64 - 1.
C3_OutOfRangeRejected ==
    (/\ enc.called /\ enc.parsed /\ enc.version = 1
     /\ OutOfRange64(enc.leaf.OneSigId) \/ OutOfRange64(enc.leaf.Nonce)) =>
        enc.res.err

\* C4: for 0 <= v < 2^64, the decimal string of v and the 0x-hex string of
\* v, as oneSigId or as nonce, both give the 8 bytes of v, big-endian (and
\* so the same leaf).
C4_DecimalHexEquivalent ==
    \A v \in Nats64 :
        /\ (enc.called /\ enc.parsed /\ enc.version = 1
            /\ IsTextOf(enc.leaf.OneSigId, v)
            /\ enc.json = [BaseLeaf EXCEPT !.OneSigId = enc.leaf.OneSigId]) =>
               /\ ~enc.res.err
               /\ oneSigIdBytesOf(enc.res.data) = bigEndian(padHigh(v, 4), 8)
        /\ (enc.called /\ enc.parsed /\ enc.version = 1
            /\ IsTextOf(enc.leaf.Nonce, v)
            /\ enc.json = [BaseLeaf EXCEPT !.Nonce = enc.leaf.Nonce]) =>
               /\ ~enc.res.err
               /\ nonceBytesOf(enc.res.data) = bigEndian(padHigh(v, 4), 8)

\* Hex text denoting bytes: an optional 0x, then an even number of hex
\* digits.
hexDigitsOf(s) == IF HasPrefix(s, <<"0", "x">>) THEN Drop(s, 2) ELSE s
WellFormedHex(s) ==
    /\ Len(hexDigitsOf(s)) % 2 = 0
    /\ \A i \in 1..Len(hexDigitsOf(s)) : IsHexChar(hexDigitsOf(s)[i])

\* Two field contents denote the same value.
SameNumber(a, b) == a = b \/ (denotedInt(a).ok /\ denotedInt(a) = denotedInt(b))
SameBytes(a, b) ==
    \/ a = b
    \/ /\ WellFormedHex(a) /\ WellFormedHex(b)
       /\ hexDecode(hexDigitsOf(a)).bytes = hexDecode(hexDigitsOf(b)).bytes
\* A call value absent or empty counts as 0.
intOf(value) ==
    IF value = Absent \/ value.text = <<>> THEN [ok |-> TRUE, val |-> BigZero]
    ELSE denotedInt(value.text)
SameCallField(c, d, f) ==
    CASE f = "to" -> SameBytes(c.To, d.To)
      [] f = "value" -> intOf(c.Value) = intOf(d.Value)
      [] f = "data" -> SameBytes(c.Data, d.Data)

\* The fields of a record: the three scalar fields and the three fields of
\* each call.
FieldsOf(l) ==
    {<<"oneSigId", 0>>, <<"nonce", 0>>, <<"targetAddress", 0>>}
        \cup ({"to", "value", "data"} \X (1..Len(l.Calls)))
SameField(l, m, f) ==
    CASE f[1] = "oneSigId" -> SameNumber(l.OneSigId, m.OneSigId)
      [] f[1] = "nonce" -> SameNumber(l.Nonce, m.Nonce)
      [] f[1] = "targetAddress" ->
            SameBytes(l.TargetOneSigAddress, m.TargetOneSigAddress)
      [] OTHER -> SameCallField(l.Calls[f[2]], m.Calls[f[2]], f[1])

DifferInExactlyOneField(l, m) ==
    /\ Len(l.Calls) = Len(m.Calls)
    /\ \E f \in FieldsOf(l) :
          /\ ~SameField(l, m, f)
          /\ \A g \in FieldsOf(l) \ {f} : SameField(l, m, g)

\* C5: two records that both encode at version 1 and differ in the value of
\* exactly one field (oneSigId, nonce, targetAddress, or one call's to,
\* value or data) have different leaves.
C5_SingleFieldSensitivity ==
    \A other \in EncodeCalls :
        (/\ Encoded
         /\ other.parsed /\ other.version = 1 /\ ~other.res.err
         /\ DifferInExactlyOneField(enc.json, other.json)) =>
            enc.res.leaf # other.res.leaf

MalformedCall(c) ==
    \/ ~WellFormedHex(c.To)
    \/ Len(hexDigitsOf(c.To)) # 2 * AddressLength
    \/ ~WellFormedHex(c.Data)

\* C6: EncodeLeafV2(record, 1) returns an error whenever a call's to or
\* data is not well-formed hex, or a to does not decode to exactly 20
\* bytes.
C6_MalformedHexIsError ==
    (/\ enc.called /\ enc.parsed /\ enc.version = 1
     /\ \E k \in 1..Len(enc.leaf.Calls) : MalformedCall(enc.leaf.Calls[k])) =>
        enc.res.err

\* ------------------------------------------------------------------------
\* Properties of the validation (specification SpecValidate)
\* ------------------------------------------------------------------------
SamePair(l, m) ==
    /\ SameNumber(l.OneSigId, m.OneSigId)
    /\ SameNumber(l.Nonce, m.Nonce)

RequiredFieldsPresent(l) ==
    /\ l.OneSigId # <<>> /\ l.Nonce # <<>> /\ l.TargetOneSigAddress # <<>>
    /\ Len(l.Calls) > 0
    /\ \A k \in 1..Len(l.Calls) :
          l.Calls[k].To # <<>> /\ l.Calls[k].Value # Absent

\* C7: validateInput fails for every input in which two leaves have the
\* same oneSigId and the same nonce, accepts equal nonces under different
\* oneSigIds, and so accepts no input with two leaves that denote the same
\* (oneSigId, nonce) pair.
C7_DuplicateNonceRejected ==
    validated.called =>
        LET input == validated.input
            duplicate == \E i, j \in 1..Len(input) :
                            i < j /\ SamePair(input[i], input[j])
        IN  /\ duplicate => validated.err # NoError
            /\ (/\ Len(input) > 0
                /\ \A i \in 1..Len(input) : RequiredFieldsPresent(input[i])
                /\ ~duplicate) => validated.err = NoError

\* ------------------------------------------------------------------------
\* Further properties of the tree (specification Spec)
\* ------------------------------------------------------------------------
\* C11: for an empty leaf sequence, NewMerkleTreeWithOptions and
\* MerkleModule.GenerateFromLeaves return an error and no tree or result,
\* for every options value.
C11_EmptyInputIsError ==
    (built /\ leaves = <<>>) =>
        /\ ~tree.ok /\ tree.Root = <<>> /\ tree.Leafs = <<>>
        /\ \A options \in TreeOptions :
              /\ ~NewMerkleTreeWithOptions(leaves, options).ok
              /\ GenerateFromLeaves(leaves, options).err
              /\ GenerateFromLeaves(leaves, options).MerkleRoot = <<>>
              /\ GenerateFromLeaves(leaves, options).Proofs = <<>>

C11_Witness == built /\ leaves = <<>> /\ ~tree.ok

MatchesOf(Leafs, leaf) == {i \in 1..Len(Leafs) : Leafs[i] = leaf}
MinOf(S) == CHOOSE i \in S : \A k \in S : i <= k

\* C12: GenerateProof(leaf) returns an error and no proof when leaf equals
\* no stored leaf, and otherwise the proof of the lowest index i with
\* Leafs[i] = leaf, also when that value is stored more than once.
C12_LeafLookup ==
    (tree.ok /\ proved.called) =>
        LET matches == MatchesOf(tree.Leafs, proved.leaf)
        IN  IF matches = {}
            THEN ~proved.ok /\ proved.proof = <<>>
            ELSE /\ proved.ok
                 /\ proved.proof =
                       generateProofHelperWithOptions(tree.Leafs,
                                                      MinOf(matches) - 1,
                                                      tree.Options)

C12_Witness ==
    /\ tree.ok /\ proved.called /\ proved.ok
    /\ \E i, j \in MatchesOf(tree.Leafs, proved.leaf) :
          /\ i < j
          /\ generateProofHelperWithOptions(tree.Leafs, i - 1, tree.Options)
                # generateProofHelperWithOptions(tree.Leafs, j - 1, tree.Options)

\* The levels of the tree over nodes, from the leaves up to the root.
RECURSIVE levelsOf(_, _)
levelsOf(nodes, options) ==
    IF Len(nodes) <= 1 THEN <<nodes>>
    ELSE <<nodes>> \o levelsOf(nextLevel(nodes, options), options)

\* C19: a level with an odd number k >= 3 of nodes is followed by a level of
\* (k+1)/2 nodes, whose last node is the level's last node unchanged and
\* whose other nodes are HashPair of the consecutive pairs in order; the
\* root of [L0, L1, L2] is HashPair(HashPair(L0, L1), L2).
C19_PromotionInConstruction ==
    tree.ok =>
        LET levels == levelsOf(tree.Leafs, tree.Options)
        IN  /\ levels[Len(levels)] = <<tree.Root>>
            /\ \A n \in 1..(Len(levels) - 1) :
                  LET level == levels[n]
                      next == levels[n + 1]
                      k == Len(level)
                  IN  (k % 2 = 1 /\ k >= 3) =>
                         /\ Len(next) = (k + 1) \div 2
                         /\ next[Len(next)] = level[k]
                         /\ \A i \in 1..(Len(next) - 1) :
                               next[i] = hashPairWithOptions(level[2 * i - 1],
                                                             level[2 * i],
                                                             tree.Options)
            /\ Len(tree.Leafs) = 3 =>
                  tree.Root =
                     hashPairWithOptions(
                        hashPairWithOptions(tree.Leafs[1], tree.Leafs[2],
                                            tree.Options),
                        tree.Leafs[3], tree.Options)

C19_Witness == tree.ok /\ Len(tree.Leafs) = 3 /\ tree.Root # tree.Leafs[3]

CountOf(s, v) == Cardinality({i \in 1..Len(s) : s[i] = v})
IsPermutation(s, t) ==
    /\ Len(s) = Len(t)
    /\ \A i \in 1..Len(s) : CountOf(s, s[i]) = CountOf(t, s[i])
IsAscending(s) ==
    \A i \in 1..(Len(s) - 1) : bytesCompare(s[i], s[i + 1]) <= 0

\* C20: after NewMerkleTreeWithOptions succeeds, tree.Leafs is a permutation
\* of the input, ascending byte-wise when sortLeaves is true and in the
\* input's order when it is false, and the caller's sequence is as it was.
C20_StoredLeafOrder ==
    (built /\ tree.ok) =>
        /\ IsPermutation(tree.Leafs, leaves)
        /\ tree.Options.SortLeaves => IsAscending(tree.Leafs)
        /\ ~tree.Options.SortLeaves => tree.Leafs = leaves
        /\ callerLeaves = leaves

C20_Witness ==
    /\ built /\ tree.ok /\ tree.Options.SortLeaves
    /\ ~IsAscending(leaves) /\ IsAscending(tree.Leafs)
    /\ callerLeaves = leaves

\* ------------------------------------------------------------------------
\* Properties of the verification (specification SpecVerify)
\* ------------------------------------------------------------------------
replaceAt(proof, i, v) == [proof EXCEPT ![i] = v]

\* C13: whenever VerifyProofWithOptions(root, leaf, proof, options) is true,
\* replacing the root, the leaf or one proof element by a different value
\* of the same length makes it false; the verification only ever returns
\* true or false.
C13_TamperSensitivity ==
    verified.called =>
        /\ verified.result \in BOOLEAN
        /\ verified.result =>
              /\ \A r \in DigestVals \ {verified.root} :
                    ~VerifyProofWithOptions(r, verified.leaf, verified.proof,
                                            verified.options)
              /\ \A l \in DigestVals \ {verified.leaf} :
                    ~VerifyProofWithOptions(verified.root, l, verified.proof,
                                            verified.options)
              /\ \A i \in 1..Len(verified.proof) :
                    \A v \in DigestVals \ {verified.proof[i]} :
                        ~VerifyProofWithOptions(verified.root, verified.leaf,
                                                replaceAt(verified.proof, i, v),
                                                verified.options)

C13_Witness ==
    /\ verified.called /\ verified.result
    /\ Len(verified.proof) = 2
    /\ verified.options.SortedPairs
    /\ bytesCompare(verified.leaf, verified.proof[1]) > 0

\* ------------------------------------------------------------------------
\* Further properties of the leaf encoding (specification SpecEncode)
\* ------------------------------------------------------------------------
\* C14: EncodeLeafV2(record, version) returns an error and no leaf for every
\* version other than 1, whatever the record, and for version 1 it returns
\* what the version 1 encoding returns.
C14_UnsupportedVersion ==
    (enc.called /\ enc.parsed) =>
        /\ enc.version # 1 => (enc.res.err /\ enc.res.leaf = <<>>)
        /\ enc.version = 1 => enc.res = encodeLeafV1(enc.leaf)

C14_Witness ==
    /\ enc.called /\ enc.parsed /\ enc.version = 2
    /\ enc.res.err
    /\ ~encodeLeafV1(enc.leaf).err

\* A text denotes an integer that 8 bytes can hold.
FitsUint64(text) ==
    /\ denotedInt(text).ok
    /\ ~denotedInt(text).val.neg
    /\ Len(denotedInt(text).val.abs) <= 4
eightBytesOf(text) == bigEndian(padHigh(denotedInt(text).val.abs, 4), 8)
IsAddressText(text) ==
    WellFormedHex(text) /\ Len(hexDigitsOf(text)) = 2 * AddressLength

\* C15: for every record that encodes at version 1, the hashed byte string
\* is the byte 1, oneSigId as 8 bytes big-endian, targetAddress left-padded
\* with zeros to 32 bytes, nonce as 8 bytes big-endian and the encoded
\* calls, in this order (49 bytes plus the calls encoding), and the leaf is
\* the hash applied twice to that string.
C15_CanonicalLeafLayout ==
    Encoded =>
        LET data == enc.res.data
            callsEncoded == packCalls(callsForAbi(enc.leaf.Calls).calls)
        IN  /\ Len(data) = 49 + Len(callsEncoded)
            /\ data[1] = 1
            /\ FitsUint64(enc.json.OneSigId)
            /\ SubSeq(data, 2, 9) = eightBytesOf(enc.json.OneSigId)
            /\ IsAddressText(enc.json.TargetOneSigAddress) =>
                  SubSeq(data, 10, 41) =
                     Rep(0, 12)
                        \o hexDecode(hexDigitsOf(enc.json.TargetOneSigAddress)).bytes
            /\ FitsUint64(enc.json.Nonce)
            /\ SubSeq(data, 42, 49) = eightBytesOf(enc.json.Nonce)
            /\ SubSeq(data, 50, Len(data)) = callsEncoded
            /\ enc.res.leaf = Keccak256(Keccak256(data))

\* The calls encoding inside the hashed byte string, its 32-byte words, and
\* the number a word holds (words here stay below 2^32).
callsEncodingOf(data) == SubSeq(data, 50, Len(data))
wordAt(e, w) == SubSeq(e, 32 * (w - 1) + 1, 32 * w)
wordValue(word) ==
    word[29] * 16777216 + word[30] * 65536 + word[31] * 256 + word[32]
IsSmallWord(word) == Len(word) = 32 /\ \A i \in 1..28 : word[i] = 0

\* The tuples follow the words before position first, one after the other
\* in the order of the calls, and offset word k holds the distance of
\* tuple k from the first offset word.
TuplesFollow(e, calls, first) ==
    LET n == Len(calls)
        tuples == [k \in 1..n |-> packCall(calls[k])]
        start(k) == 32 * n + Len(concatAll(SubSeq(tuples, 1, k - 1)))
    IN  /\ Len(e) = 32 * (first - 1) + 32 * n + Len(concatAll(tuples))
        /\ \A k \in 1..n :
              /\ IsSmallWord(wordAt(e, first - 1 + k))
              /\ wordValue(wordAt(e, first - 1 + k)) = start(k)
              /\ SubSeq(e, 32 * (first - 1) + start(k) + 1,
                        32 * (first - 1) + start(k) + Len(tuples[k]))
                    = tuples[k]

\* C16: the encoding of n calls begins with one 32-byte big-endian word
\* equal to n, immediately followed by n offset words, one per tuple, and
\* then the per-tuple encodings in original order.
C16_HeadSegmentStartsWithCount ==
    Encoded =>
        LET e == callsEncodingOf(enc.res.data)
            calls == callsForAbi(enc.leaf.Calls).calls
            n == Len(calls)
        IN  /\ Len(e) >= 32 * (1 + n)
            /\ IsSmallWord(wordAt(e, 1))
            /\ wordValue(wordAt(e, 1)) = n
            /\ SubSeq(e, 32 * (1 + n) + 1, Len(e))
                  = concatAll([k \in 1..n |-> packCall(calls[k])])

\* C16 (amended): the encoding of n calls begins with the word 32 (the
\* offset of the array), then one word equal to n, then n offset words, one
\* per tuple, counted from the first offset word, and then the per-tuple
\* encodings in original order.
C16_HeadSegmentAfterArrayOffset ==
    Encoded =>
        LET e == callsEncodingOf(enc.res.data)
            calls == callsForAbi(enc.leaf.Calls).calls
        IN  /\ IsSmallWord(wordAt(e, 1))
            /\ wordValue(wordAt(e, 1)) = 32
            /\ IsSmallWord(wordAt(e, 2))
            /\ wordValue(wordAt(e, 2)) = Len(calls)
            /\ TuplesFollow(e, calls, 3)

C16_Witness ==
    /\ Encoded
    /\ Len(enc.leaf.Calls) = 2
    /\ wordValue(wordAt(callsEncodingOf(enc.res.data), 4)) > 64

\* The root the encode command computes with its default flags on the same
\* leaves.
encodeDefaultRoot(ls) ==
    NewMerkleTreeWithOptions(ls, [SortedPairs |-> EncodeSortedPairsDefault,
                                  SortLeaves |-> EncodeSortLeavesDefault]).Root

\* C17: when the merkle command is run without the --sortedPairs flag, the
\* tree is built and the proofs are generated with sorted pairs enabled, so
\* that it yields the same root as the encode command run with its defaults
\* on the same leaves.
C17_MerkleDefaultSortedPairs ==
    (cmd.called /\ cmd.sortedPairs = "unset") =>
        /\ cmd.options.SortedPairs
        /\ (cmd.sortLeaves = "unset" /\ ~cmd.result.err) =>
              cmd.result.MerkleRoot = encodeDefaultRoot(cmd.leaves)

\* C18: for any leaf sequence of odd length, the root computed by the legacy
\* tree (duplicate the trailing node and hash it against itself, pairs
\* always sorted) differs from the root computed by the current tree
\* (promote the trailing node) with sortedPairs=true.
C18_OddPoliciesDisagree ==
    (legacy.called /\ Len(legacy.leaves) % 2 = 1) =>
        legacy.legacy.Root # legacy.current.Root

\* C18 (amended): for any leaf sequence of odd length of at least three, the
\* legacy root differs from the current root with sortedPairs=true; a
\* single leaf is its own root in both trees.
C18_OddPoliciesDisagreeFromThree ==
    /\ (legacy.called /\ Len(legacy.leaves) % 2 = 1 /\ Len(legacy.leaves) >= 3) =>
          /\ legacy.legacy.ok
          /\ legacy.current.ok
          /\ legacy.legacy.Root # legacy.current.Root
    /\ (legacy.called /\ Len(legacy.leaves) = 1) =>
          /\ legacy.legacy.Root = legacy.leaves[1]
          /\ legacy.current.Root = legacy.leaves[1]

C18_Witness ==
    /\ legacy.called
    /\ Len(legacy.leaves) = 3
    /\ legacy.legacy.Root # legacy.current.Root

\* ------------------------------------------------------------------------
\* Verification of any value against a built tree
\* ------------------------------------------------------------------------
\* Every node of the tree: the stored leaves, the internal nodes, the root.
nodesOf(t) ==
    LET levels == levelsOf(t.Leafs, t.Options)
    IN  UNION {{levels[n][i] : i \in 1..Len(levels[n])} : n \in 1..Len(levels)}

\* VerifyProofWithOptions(tree.Root, x, proof, tree.Options) called by
\* anyone who knows the tree, on a leaf value or a node of the tree and a
\* proof made of nodes of the tree.
CallVerifyOnTree ==
    /\ tree.ok
    /\ ~verified.called
    /\ \E x \in LeafVals \cup nodesOf(tree),
          proof \in SeqsUpTo(nodesOf(tree), MaxProofLen) :
          verified' = [called |-> TRUE, root |-> tree.Root, leaf |-> x,
                       proof |-> proof, options |-> tree.Options,
                       result |-> VerifyProofWithOptions(tree.Root, x, proof,
                                                         tree.Options)]
    /\ UNCHANGED <<leaves, built, tree, proved, callerLeaves, enc, validated,
                   cmdVars>>

NextSound ==
    \/ CallNewMerkleTree
    \/ CallVerifyOnTree

SpecSound == Init /\ [][NextSound]_vars

IsLeafOf(x, t) == \E i \in 1..Len(t.Leafs) : t.Leafs[i] = x

\* C21: for a tree built from at least two leaves,
\* VerifyProofWithOptions(tree.Root, x, proof, tree.Options) returns true
\* only for values x that are members of the tree's leaf sequence; no value
\* that is merely an internal node of the tree is accepted with any proof.
C21_VerificationSoundness ==
    (/\ tree.ok
     /\ Len(leaves) >= 2
     /\ verified.called
     /\ verified.root = tree.Root
     /\ verified.options = tree.Options
     /\ verified.result) => IsLeafOf(verified.leaf, tree)

\* C22: for every input accepted by validateInput and encoded without
\* error by the encode command, the i-th entry of the output proofs carries
\* the nonce, oneSigId and targetOneSigAddress strings of the i-th input
\* leaf, for every i.
C22_OutputMatchesInput ==
    (output.called /\ output.result.err = NoError) =>
        /\ Len(output.result.Proofs) = Len(output.input)
        /\ \A i \in 1..Len(output.input) :
              /\ output.result.Proofs[i].Nonce = output.input[i].Nonce
              /\ output.result.Proofs[i].OneSigId = output.input[i].OneSigId
              /\ output.result.Proofs[i].TargetOneSigAddress
                    = output.input[i].TargetOneSigAddress

\* ceil(log2(n)) for n >= 1: the least k with 2^k >= n.
ceilLog2(n) == CHOOSE k \in 0..n : 2 ^ k >= n /\ \A j \in 0..(k - 1) : 2 ^ j < n

\* C23: with sortedPairs=true, for every non-empty leaf sequence, including
\* sequences of odd length and sequences with duplicate leaf values, for
\* both values of sortLeaves and for every leaf L of the sequence, the proof
\* returned by GenerateProof(L) makes VerifyProofWithOptions return true
\* against the tree's root, and its length is at most ceil(log2(n)).
C23_ProofValidSortedPairs ==
    /\ (tree.ok /\ tree.Options.SortedPairs) =>
          LET result == GenerateFromLeaves(leaves, tree.Options)
          IN  /\ ~result.err
              /\ Len(result.Proofs) = Len(leaves)
              /\ \A i \in 1..Len(leaves) :
                    LET r == GenerateProof(tree, leaves[i])
                        p == result.Proofs[i]
                    IN  /\ r.ok
                        /\ VerifyProofWithOptions(tree.Root, leaves[i], r.proof,
                                                  tree.Options)
                        /\ Len(r.proof) <= ceilLog2(Len(leaves))
                        /\ p.Leaf = leaves[i]
                        /\ VerifyProofWithOptions(result.MerkleRoot, p.Leaf,
                                                  p.Proof, tree.Options)
                        /\ Len(p.Proof) <= ceilLog2(Len(leaves))
    /\ (HonestVerify /\ tree.Options.SortedPairs) =>
          /\ verified.result
          /\ Len(verified.proof) <= ceilLog2(Len(leaves))

C23_Witness ==
    /\ HonestVerify
    /\ tree.Options.SortedPairs
    /\ Len(leaves) = 3
    /\ leaves[1] = leaves[3]
    /\ leaves[1] # leaves[2]
    /\ verified.leaf = leaves[2]
    /\ Len(verified.proof) = 2
    /\ verified.result

====
